---- MODULE Spec2Model ----
(***************************************************************************)
(* A model of distributed/dist_loader.py: class DistLoader.                *)
(*                                                                         *)
(* One loader process per rank of the distributed group.  Each loader owns *)
(* a channel (an mp.Queue, or None), shares a sampler object with the      *)
(* workers of its pool, derives a DistContext per worker, and synchronises *)
(* with its peers through torch.distributed.barrier().                     *)
(*                                                                         *)
(* Python objects are modelled by reference: a loader's queues live in     *)
(* chans[p], and a reference to one is its index there (None is 0).        *)
(***************************************************************************)
EXTENDS Integers, Sequences, FiniteSets, TLC

\* ---------------------------------------------------------------- bounds
\* Number of loader processes (ranks) of the group in the protocol runs.
NProc == 2
\* Largest world_size and num_workers of the worker-initialisation runs.
MaxW == 2
MaxP == 2
\* Failing init_sampler_instance() calls injected in one run.
MaxFail == 2
\* Messages the workers produce and calls (scopes, resets) the users start in
\* one run, and the prefetch depth the loaders are configured with.
MaxMsgs == 2
MaxCalls == 2
Depth == 2

VARIABLES
    current_ctx,        \* p -> DistContext of the loader process      (line 32)
    num_workers,        \* kwargs.get('num_workers', 0)                (line 35)
    channel,            \* p -> self.channel: a reference or None      (line 33)
    dist_sampler,       \* p -> the sampler: [present, channel]        (line 31)
    chans,              \* p -> the queues allocated in process p, by reference
    arrived,            \* p -> number of torch.distributed.barrier() calls made
    pc,                 \* p -> position of the loader's thread
    scope,              \* p -> "out" | "in" | "exit": the warm-up scope
    arg,                \* p -> the channel argument of the running reset_channel
    prefetch_factor,    \* p -> self.prefetch_factor
    prefetch_old,       \* p -> self._prefetch_old
    iterator,           \* p -> self._iterator
    raised,             \* p -> the error the last call of p ended with, or NoError
    out,                \* p -> the value the last channel_get returned
    produced,           \* number of messages the workers have enqueued so far
    calls,              \* number of calls (scopes, resets) the users have started
    call,               \* p -> history of the running reset_channel call
    entryDepth,         \* p -> prefetch depth held when the scope was entered
    current_ctx_worker, \* p -> w -> self.current_ctx_worker in the copy of worker w
    sampler_inst,       \* p -> w -> number of init_sampler_instance() calls
    worker_raised       \* p -> w -> the error worker_init_fn(w) raised, or NoError

vars == <<current_ctx, num_workers, channel, dist_sampler, chans, arrived, pc,
          scope, arg, prefetch_factor, prefetch_old, iterator, raised, out,
          produced, calls, call, entryDepth, current_ctx_worker, sampler_inst,
          worker_raised>>

protoVars == <<channel, dist_sampler, chans, arrived, pc, scope, arg,
               prefetch_factor, prefetch_old, iterator, raised, out, produced,
               calls, call, entryDepth>>

workerVars == <<current_ctx_worker, sampler_inst, worker_raised>>

\* ------------------------------------------------------------ Python values
None == 0
NoError == [type |-> "NoError", text |-> <<>>]
NoCtx == [world_size |-> 0, rank |-> 0, global_world_size |-> 0,
          global_rank |-> 0, group_name |-> "unset"]
Placeholder == 0
NoCall == [old |-> 0, sampler |-> 0, a0 |-> 0, log |-> <<>>, popped |-> 0,
           concurrent |-> FALSE]

Procs == DOMAIN current_ctx

\* The process id a loader records in __init__ (line 34).
pid(p) == p + 1

\* __repr__ (lines 80-81): f'{self.__class__.__name__}(pid={self.pid})'.
Repr(p) == <<"DistLoader", "(pid=", pid(p), ")">>

\* Python's truth test of a channel: mp.Queue defines neither __bool__ nor
\* __len__, so only None is false (lines 40, 53, 91).
ChannelTruthy(c) == c # None

\* Python's truth test of self._iterator (line 93): None is false, and a
\* DataLoaderIterator (line 12) has __len__, so one over no batches is false.
IteratorTruthy(it) == it = "iter1"

\* ------------------------------------------------------- DistContext, workers
\* DistContext(world_size=, rank=, global_world_size=, global_rank=, group_name=)
DistContext(ws, r, gws, gr, g) ==
    [world_size |-> ws, rank |-> r, global_world_size |-> gws,
     global_rank |-> gr, group_name |-> g]

\* Line 58: num_sampler_proc = self.num_workers if self.num_workers > 0 else 1
num_sampler_proc(n) == IF n > 0 THEN n ELSE 1

\* WorkerContext with the parent's rank not scaled by the pool size.
WorkerContextNoStride(ctx, n, worker_id) ==
    DistContext(ctx.world_size * num_sampler_proc(n),
                ctx.rank + worker_id,
                ctx.world_size * num_sampler_proc(n),
                ctx.rank + worker_id,
                "mp_sampling_worker")

\* WorkerContext with the global world size left at the parent's world size.
WorkerContextParentSize(ctx, n, worker_id) ==
    DistContext(ctx.world_size * num_sampler_proc(n),
                ctx.rank * num_sampler_proc(n) + worker_id,
                ctx.world_size,
                ctx.rank * num_sampler_proc(n) + worker_id,
                "mp_sampling_worker")

\* Lines 59-67: the context worker_init_fn(worker_id) derives from the parent's.
WorkerContext(ctx, n, worker_id) ==
    DistContext(ctx.world_size * num_sampler_proc(n),
                ctx.rank * num_sampler_proc(n) + worker_id,
                ctx.world_size * num_sampler_proc(n),
                ctx.rank * num_sampler_proc(n) + worker_id,
                "mp_sampling_worker")

\* Lines 76-78: the error raised in place of a RuntimeError caught in the worker:
\* the f-string quotes repr(self) followed by .init_fn(), then the fixed text.
InitFnError(p, worker_id) ==
    [type |-> "RuntimeError",
     text |-> Repr(p) \o
              <<".init_fn() could not initialize the worker loop of the neighbor sampler">>]

\* An error that passes through unchanged: it is not caught by line 76.
Uncaught(kind) == [type |-> kind, text |-> <<>>]

Workers(p) == DOMAIN current_ctx_worker[p]

\* What init_sampler_instance() may do when called (line 72).
SamplerOutcomes == {"ok", "RuntimeError", "Exception"}

\* Every worker of the job, as <<rank of its loader, worker_id>>.
AllWorkers == UNION {{<<p, w>> : w \in Workers(p)} : p \in Procs}

Failures ==
    Cardinality({pw \in AllWorkers : worker_raised[pw[1]][pw[2]] # NoError})

\* WorkerInitResult with the RuntimeError of the sampler caught and dropped.
WorkerInitResultSwallowed(p, worker_id, outcome) ==
    IF ~dist_sampler[p].present THEN Uncaught("AttributeError")
    ELSE IF outcome = "Exception" THEN Uncaught("Exception")
    ELSE NoError

\* What worker_init_fn ends with (lines 72-78), given what the sampler did:
\* a RuntimeError is caught and replaced, anything else passes through; a missing
\* sampler (dist_sampler=None, line 28) fails the attribute lookup of line 72.
WorkerInitResult(p, worker_id, outcome) ==
    IF ~dist_sampler[p].present THEN Uncaught("AttributeError")
    ELSE IF outcome = "RuntimeError" THEN InitFnError(p, worker_id)
    ELSE IF outcome = "Exception" THEN Uncaught("Exception")
    ELSE NoError

\* RecordContext writing one attribute that all workers of the loader share.
RecordContextShared(p, worker_id, ctx) ==
    [current_ctx_worker EXCEPT ![p] = [w \in DOMAIN @ |-> ctx]]

\* Line 59: self.current_ctx_worker = ..., an attribute of the copy of the loader
\* that worker worker_id holds.
RecordContext(p, worker_id, ctx) ==
    [current_ctx_worker EXCEPT ![p][worker_id] = ctx]

\* Lines 56-78: worker_init_fn(worker_id), run in the copy of the loader held by worker
\* worker_id,
\* at worker start-up, once per worker.
worker_init_fn(p, worker_id, outcome) ==
    /\ current_ctx_worker[p][worker_id] = NoCtx
    /\ worker_raised[p][worker_id] = NoError
    /\ (outcome # "ok" /\ dist_sampler[p].present) => Failures < MaxFail
    /\ current_ctx_worker' =
         RecordContext(p, worker_id,
                       WorkerContext(current_ctx[p], num_workers, worker_id))
    /\ sampler_inst' =
         [sampler_inst EXCEPT ![p][worker_id] =
             IF dist_sampler[p].present THEN @ + 1 ELSE @]
    /\ worker_raised' =
         [worker_raised EXCEPT ![p][worker_id] = WorkerInitResult(p, worker_id, outcome)]
    /\ UNCHANGED <<current_ctx, num_workers, protoVars>>

\* ------------------------------------------------------------ the protocol
Queue(p, c) == chans[p][c]

\* ChannelEmpty never reporting empty.
ChannelEmptyNever(q) == FALSE

\* ChannelEmpty reporting empty while one message is left.
ChannelEmptyOffByOne(q) == Len(q) <= 1

\* Line 48: self.channel.empty()
ChannelEmpty(q) == q = <<>>

\* mp.Queue(): a new, empty queue in process p; its reference is the next index.
NewQueue(p) == Len(chans[p]) + 1

\* A barrier that lets its caller through without waiting for the peers.
BarrierOpenAlone(p) == TRUE

\* torch.distributed.barrier() (lines 51, 95) is a collective: the k-th call of a
\* process returns once every process of the group has made its k-th call.
BarrierOpen(p) == \A q \in Procs : arrived[q] >= arrived[p]

\* The swap placed before the barrier.
AfterDrainSwap == "rc_swap"

\* The statements of reset_channel in program order (lines 48-54), by position.
AfterDrain == "rc_barrier"
AfterBarrier == "rc_swap"
AfterSwap == "rc_prop"

InReset(p) == pc[p] \in {"rc_test", "rc_pop", "rc_barrier", "rc_swap", "rc_prop"}

\* SwapTarget ignoring the channel the caller supplied.
SwapTargetAlwaysNew(p) == NewQueue(p)

\* Line 53: self.channel = channel or mp.Queue()
SwapTarget(p) == IF ChannelTruthy(arg[p]) THEN arg[p] ELSE NewQueue(p)

\* The pool of worker processes lives as long as the iterator that owns it.
PoolAlive(p) == iterator[p] \in {"iter0", "iter1"}

Step(p, name) == [call EXCEPT ![p].log = Append(@, name)]

\* A call's history is dropped when the call ends.
Returned(c) == NoCall

\* The queues of p once only the references in keep are left: Python frees a
\* queue nothing refers to, and with it the messages it still held.  The slot
\* stays, so that a reference never names two queues.
Freed(p, keep) == [c \in DOMAIN chans[p] |-> IF c \in keep THEN chans[p][c] ELSE <<>>]

\* Raise with the error dropped: the call ends as if it had returned.
RaiseSwallowed(p, error) ==
    /\ pc' = [pc EXCEPT ![p] = "idle"]
    /\ arg' = [arg EXCEPT ![p] = None]
    /\ call' = [call EXCEPT ![p] = Returned(@)]
    /\ raised' = [raised EXCEPT ![p] = "NoError"]
    /\ scope' = [scope EXCEPT ![p] = IF @ = "exit" THEN "out" ELSE @]

\* An exception leaves the running call, and the warm-up scope if the call is
\* __exit__ (the with statement does not catch it).
Raise(p, error) ==
    /\ pc' = [pc EXCEPT ![p] = "idle"]
    /\ arg' = [arg EXCEPT ![p] = None]
    /\ call' = [call EXCEPT ![p] = Returned(@)]
    /\ raised' = [raised EXCEPT ![p] = error]
    /\ scope' = [scope EXCEPT ![p] = IF @ = "exit" THEN "out" ELSE @]

\* A call of reset_channel(channel) by the user of the loader (line 45).  The
\* argument is None, the loader's own current channel, or a new queue of the
\* caller's.
reset_channel(p, kind) ==
    /\ pc[p] = "idle"
    /\ scope[p] \in {"out", "in"}
    /\ calls < MaxCalls
    /\ kind = "reuse" => ChannelTruthy(channel[p])
    /\ calls' = calls + 1
    /\ chans' = [chans EXCEPT ![p] = IF kind = "new" THEN Append(@, <<>>) ELSE @]
    /\ arg' = [arg EXCEPT ![p] = CASE kind = "none" -> None
                                   [] kind = "reuse" -> channel[p]
                                   [] kind = "new" -> NewQueue(p)]
    /\ call' = [call EXCEPT ![p] = [old |-> channel[p],
                                    sampler |-> dist_sampler[p].channel,
                                    a0 |-> Len(chans'[p]),
                                    log |-> <<>>, popped |-> 0,
                                    concurrent |-> FALSE]]
    /\ pc' = [pc EXCEPT ![p] = "rc_test"]
    /\ raised' = [raised EXCEPT ![p] = "NoError"]
    /\ UNCHANGED <<current_ctx, num_workers, channel, dist_sampler, arrived, scope,
                   prefetch_factor, prefetch_old, iterator, out, produced,
                   entryDepth, workerVars>>

\* Line 48: while not self.channel.empty().  With no channel the attribute
\* lookup on None raises; an empty queue ends the drain and the thread calls the
\* barrier of line 51.
rc_test(p) ==
    /\ pc[p] = "rc_test"
    /\ IF ~ChannelTruthy(channel[p])
       THEN /\ Raise(p, "AttributeError")
            /\ UNCHANGED arrived
       ELSE IF ChannelEmpty(Queue(p, channel[p]))
       THEN /\ pc' = [pc EXCEPT ![p] = AfterDrain]
            /\ arrived' = [arrived EXCEPT ![p] =
                             IF AfterDrain = "rc_barrier" THEN @ + 1 ELSE @]
            /\ call' = Step(p, "drain")
            /\ UNCHANGED <<raised, scope, arg>>
       ELSE /\ pc' = [pc EXCEPT ![p] = "rc_pop"]
            /\ UNCHANGED <<arrived, call, raised, scope, arg>>
    /\ UNCHANGED <<current_ctx, num_workers, channel, dist_sampler, chans,
                   prefetch_factor, prefetch_old, iterator, out, produced, calls,
                   entryDepth, workerVars>>

\* Line 49: self.channel.get_nowait(), which raises queue.Empty on an empty queue.
rc_pop(p) ==
    /\ pc[p] = "rc_pop"
    /\ IF Queue(p, channel[p]) = <<>>
       THEN /\ Raise(p, "Empty")
            /\ UNCHANGED chans
       ELSE /\ chans' = [chans EXCEPT ![p][channel[p]] = Tail(@)]
            /\ call' = [call EXCEPT ![p].popped = @ + 1]
            /\ pc' = [pc EXCEPT ![p] = "rc_test"]
            /\ UNCHANGED <<raised, scope, arg>>
    /\ UNCHANGED <<current_ctx, num_workers, channel, dist_sampler, arrived,
                   prefetch_factor, prefetch_old, iterator, out, produced, calls,
                   entryDepth, workerVars>>

\* Line 51: torch.distributed.barrier() returns.
rc_barrier(p) ==
    /\ pc[p] = "rc_barrier"
    /\ BarrierOpen(p)
    /\ pc' = [pc EXCEPT ![p] = AfterBarrier]
    /\ call' = Step(p, "barrier")
    /\ UNCHANGED <<current_ctx, num_workers, channel, dist_sampler, chans, arrived,
                   scope, arg, prefetch_factor, prefetch_old, iterator, raised, out,
                   produced, calls, entryDepth, workerVars>>

\* Line 53: self.channel = channel or mp.Queue()
rc_swap(p) ==
    /\ pc[p] = "rc_swap"
    /\ channel' = [channel EXCEPT ![p] = SwapTarget(p)]
    /\ chans' = [chans EXCEPT ![p] =
                   IF SwapTarget(p) > Len(@) THEN Append(@, <<>>) ELSE @]
    /\ pc' = [pc EXCEPT ![p] = AfterSwap]
    /\ arrived' = [arrived EXCEPT ![p] =
                     IF AfterSwap = "rc_barrier" THEN @ + 1 ELSE @]
    /\ call' = Step(p, "swap")
    /\ UNCHANGED <<current_ctx, num_workers, dist_sampler, scope, arg,
                   prefetch_factor, prefetch_old, iterator, raised, out, produced,
                   calls, entryDepth, workerVars>>

\* Line 54: self.dist_sampler.channel = self.channel, and the return.  With no
\* sampler (dist_sampler=None, line 28) the attribute assignment raises.
rc_prop(p) ==
    /\ pc[p] = "rc_prop"
    /\ IF dist_sampler[p].present
       THEN /\ dist_sampler' = [dist_sampler EXCEPT ![p].channel = channel[p]]
            /\ chans' = [chans EXCEPT ![p] = Freed(p, {channel[p]})]
            /\ call' = [call EXCEPT ![p] = Returned(Step(p, "propagate")[p])]
            /\ arg' = [arg EXCEPT ![p] = None]
            /\ pc' = [pc EXCEPT ![p] = IF scope[p] = "exit" THEN "ex_iter" ELSE "idle"]
            /\ UNCHANGED <<raised, scope>>
       ELSE /\ Raise(p, "AttributeError")
            /\ chans' = [chans EXCEPT ![p] = Freed(p, {channel[p]})]
            /\ UNCHANGED dist_sampler
    /\ UNCHANGED <<current_ctx, num_workers, channel, arrived,
                   prefetch_factor, prefetch_old, iterator, out, produced, calls,
                   entryDepth, workerVars>>

\* A worker of the pool of p hands a sampled message to the loader: the sampler
\* writes it into the channel its channel attribute refers to.
Produce(p) ==
    /\ PoolAlive(p)
    /\ dist_sampler[p].present
    /\ ChannelTruthy(dist_sampler[p].channel)
    /\ produced < MaxMsgs
    /\ produced' = produced + 1
    /\ chans' = [chans EXCEPT ![p][dist_sampler[p].channel] =
                   Append(@, produced + 1)]
    /\ call' = [call EXCEPT ![p].concurrent = @ \/ InReset(p)]
    /\ UNCHANGED <<current_ctx, num_workers, channel, dist_sampler, arrived, pc,
                   scope, arg, prefetch_factor, prefetch_old, iterator, raised, out,
                   calls, entryDepth, workerVars>>

\* The values a caller passes to channel_get as out: never a message (the
\* messages are numbered from 1).
Placeholders == {Placeholder, -1}

\* A get() that takes the message enqueued last.
ReceivedLast(q) == q[Len(q)]

\* Line 41: the message self.channel.get() returns, the oldest of the queue.
Received(q) == Head(q)

\* Lines 39-43: channel_get(out).  self.channel.get() blocks while the queue is
\* empty.
channel_get(p, o) ==
    /\ pc[p] = "idle"
    /\ scope[p] \in {"out", "in"}
    /\ IF ChannelTruthy(channel[p])
       THEN /\ Queue(p, channel[p]) # <<>>
            /\ out' = [out EXCEPT ![p] = Received(Queue(p, channel[p]))]
            /\ chans' = [chans EXCEPT ![p][channel[p]] = Tail(@)]
       ELSE /\ out' = [out EXCEPT ![p] = o]
            /\ UNCHANGED chans
    /\ UNCHANGED <<current_ctx, num_workers, channel, dist_sampler, arrived, pc,
                   scope, arg, prefetch_factor, prefetch_old, iterator, raised,
                   produced, calls, call, entryDepth, workerVars>>

\* Lines 83-88: __enter__.  self._get_iterator() starts the worker pool and
\* returns an iterator over the batches (none, or some), or raises.
enter(p, result) ==
    /\ pc[p] = "idle"
    /\ scope[p] = "out"
    /\ calls < MaxCalls
    /\ calls' = calls + 1
    /\ entryDepth' = [entryDepth EXCEPT ![p] = prefetch_factor[p]]
    /\ prefetch_old' = [prefetch_old EXCEPT ![p] = prefetch_factor[p]]
    /\ prefetch_factor' = [prefetch_factor EXCEPT ![p] = 1]
    /\ IF result = "raise"
       THEN /\ raised' = [raised EXCEPT ![p] = "Exception"]
            /\ UNCHANGED <<iterator, scope>>
       ELSE /\ iterator' = [iterator EXCEPT ![p] = result]
            /\ scope' = [scope EXCEPT ![p] = "in"]
            /\ raised' = [raised EXCEPT ![p] = "NoError"]
    /\ UNCHANGED <<current_ctx, num_workers, channel, dist_sampler, chans, arrived,
                   pc, arg, out, produced, call, workerVars>>

\* Lines 90-92: __exit__ is called; with a channel it calls self.reset_channel().
exit(p) ==
    /\ pc[p] = "idle"
    /\ scope[p] = "in"
    /\ scope' = [scope EXCEPT ![p] = "exit"]
    /\ raised' = [raised EXCEPT ![p] = "NoError"]
    /\ IF ChannelTruthy(channel[p])
       THEN /\ pc' = [pc EXCEPT ![p] = "rc_test"]
            /\ arg' = [arg EXCEPT ![p] = None]
            /\ call' = [call EXCEPT ![p] = [old |-> channel[p],
                                            sampler |-> dist_sampler[p].channel,
                                            a0 |-> Len(chans[p]),
                                            log |-> <<>>, popped |-> 0,
                                            concurrent |-> FALSE]]
       ELSE /\ pc' = [pc EXCEPT ![p] = "ex_iter"]
            /\ UNCHANGED <<arg, call>>
    /\ UNCHANGED <<current_ctx, num_workers, channel, dist_sampler, chans, arrived,
                   prefetch_factor, prefetch_old, iterator, out, produced, calls,
                   entryDepth, workerVars>>

\* Lines 93-95: if self._iterator: del self._iterator, then the barrier is
\* called; otherwise __exit__ returns.
ex_iter(p) ==
    /\ pc[p] = "ex_iter"
    /\ IF IteratorTruthy(iterator[p])
       THEN /\ iterator' = [iterator EXCEPT ![p] = "unset"]
            /\ arrived' = [arrived EXCEPT ![p] = @ + 1]
            /\ pc' = [pc EXCEPT ![p] = "ex_barrier"]
            /\ UNCHANGED scope
       ELSE /\ pc' = [pc EXCEPT ![p] = "idle"]
            /\ scope' = [scope EXCEPT ![p] = "out"]
            /\ UNCHANGED <<iterator, arrived>>
    /\ UNCHANGED <<current_ctx, num_workers, channel, dist_sampler, chans, arg,
                   prefetch_factor, prefetch_old, raised, out, produced, calls,
                   call, entryDepth, workerVars>>

\* Lines 95-97: the barrier returns; self._iterator = None and the prefetch
\* depth is restored; __exit__ returns.
ex_barrier(p) ==
    /\ pc[p] = "ex_barrier"
    /\ BarrierOpen(p)
    /\ iterator' = [iterator EXCEPT ![p] = "None"]
    /\ prefetch_factor' = [prefetch_factor EXCEPT ![p] = prefetch_old[p]]
    /\ pc' = [pc EXCEPT ![p] = "idle"]
    /\ scope' = [scope EXCEPT ![p] = "out"]
    /\ UNCHANGED <<current_ctx, num_workers, channel, dist_sampler, chans, arrived,
                   arg, prefetch_old, raised, out, produced, calls, call,
                   entryDepth, workerVars>>

\* ------------------------------------------------------------------- Init
\* __init__ (lines 24-35) of every loader of a job of W ranks with num_workers n;
\* has[p] says whether loader p was given a channel, smp[p] whether a sampler.
InitJob(W, n, has, smp, d) ==
    /\ current_ctx = [p \in 0 .. (W - 1) |-> DistContext(W, p, W, p, "loader")]
    /\ num_workers = n
    /\ channel = [p \in 0 .. (W - 1) |-> IF has[p] THEN 1 ELSE None]
    /\ dist_sampler = [p \in 0 .. (W - 1) |->
                         [present |-> smp[p],
                          channel |-> IF has[p] /\ smp[p] THEN 1 ELSE None]]
    /\ chans = [p \in 0 .. (W - 1) |-> IF has[p] THEN << <<>> >> ELSE <<>>]
    /\ arrived = [p \in 0 .. (W - 1) |-> 0]
    /\ pc = [p \in 0 .. (W - 1) |-> "idle"]
    /\ scope = [p \in 0 .. (W - 1) |-> "out"]
    /\ arg = [p \in 0 .. (W - 1) |-> None]
    /\ prefetch_factor = [p \in 0 .. (W - 1) |-> d]
    /\ prefetch_old = [p \in 0 .. (W - 1) |-> d]
    /\ iterator = [p \in 0 .. (W - 1) |-> "unset"]
    /\ raised = [p \in 0 .. (W - 1) |-> "NoError"]
    /\ out = [p \in 0 .. (W - 1) |-> Placeholder]
    /\ produced = 0
    /\ calls = 0
    /\ call = [p \in 0 .. (W - 1) |-> NoCall]
    /\ entryDepth = [p \in 0 .. (W - 1) |-> d]
    /\ current_ctx_worker =
         [p \in 0 .. (W - 1) |-> [w \in 0 .. (num_sampler_proc(n) - 1) |-> NoCtx]]
    /\ sampler_inst =
         [p \in 0 .. (W - 1) |-> [w \in 0 .. (num_sampler_proc(n) - 1) |-> 0]]
    /\ worker_raised =
         [p \in 0 .. (W - 1) |-> [w \in 0 .. (num_sampler_proc(n) - 1) |-> NoError]]

\* Worker initialisation over every job shape within the bounds.
InitWorker ==
    \E W \in 1 .. MaxW, n \in 0 .. MaxP :
      \E smp \in [0 .. (W - 1) -> BOOLEAN] :
        InitJob(W, n, [p \in 0 .. (W - 1) |-> TRUE], smp, 1)

NextWorker ==
    \E p \in Procs : \E w \in Workers(p) : \E o \in SamplerOutcomes :
        worker_init_fn(p, w, o)

SpecWorker == InitWorker /\ [][NextWorker]_vars

\* The loaders of one group of NProc ranks, built by the same script: all with a
\* sampler or all without, all with prefetch depth Depth, each with or without
\* a channel.
Init ==
    \E has \in [0 .. (NProc - 1) -> BOOLEAN], smp \in BOOLEAN :
        InitJob(NProc, 0, has, [p \in 0 .. (NProc - 1) |-> smp], Depth)

Next ==
    \/ \E p \in Procs, kind \in {"none", "reuse", "new"} : reset_channel(p, kind)
    \/ \E p \in Procs : rc_test(p)
    \/ \E p \in Procs : rc_pop(p)
    \/ \E p \in Procs : rc_barrier(p)
    \/ \E p \in Procs : rc_swap(p)
    \/ \E p \in Procs : rc_prop(p)
    \/ \E p \in Procs : Produce(p)
    \/ \E p \in Procs : channel_get(p, Placeholder)
    \/ \E p \in Procs, result \in {"iter1", "iter0", "raise"} : enter(p, result)
    \/ \E p \in Procs : exit(p)
    \/ \E p \in Procs : ex_iter(p)
    \/ \E p \in Procs : ex_barrier(p)

Spec == Init /\ [][Next]_vars

\* The loaders used through their warm-up scope and channel_get only, the
\* callers of channel_get passing any of the placeholders.
NextGet ==
    \/ \E p \in Procs, o \in Placeholders : channel_get(p, o)
    \/ \E p \in Procs : Produce(p)
    \/ \E p \in Procs, result \in {"iter1", "iter0", "raise"} : enter(p, result)
    \/ \E p \in Procs : exit(p)
    \/ \E p \in Procs : rc_test(p)
    \/ \E p \in Procs : rc_pop(p)
    \/ \E p \in Procs : rc_barrier(p)
    \/ \E p \in Procs : rc_swap(p)
    \/ \E p \in Procs : rc_prop(p)
    \/ \E p \in Procs : ex_iter(p)
    \/ \E p \in Procs : ex_barrier(p)

SpecGet == Init /\ [][NextGet]_vars

\* The group at the moment every loader has entered its warm-up scope (lines
\* 83-88 have run on each, with an iterator over some batches): the worker
\* pools are running and each loader still has its channel of construction.
InitWarm ==
    \E has \in [0 .. (NProc - 1) -> BOOLEAN], smp \in BOOLEAN :
      /\ current_ctx = [p \in 0 .. (NProc - 1) |->
                          DistContext(NProc, p, NProc, p, "loader")]
      /\ num_workers = 0
      /\ channel = [p \in 0 .. (NProc - 1) |-> IF has[p] THEN 1 ELSE None]
      /\ dist_sampler = [p \in 0 .. (NProc - 1) |->
                           [present |-> smp,
                            channel |-> IF has[p] /\ smp THEN 1 ELSE None]]
      /\ chans = [p \in 0 .. (NProc - 1) |-> IF has[p] THEN << <<>> >> ELSE <<>>]
      /\ arrived = [p \in 0 .. (NProc - 1) |-> 0]
      /\ pc = [p \in 0 .. (NProc - 1) |-> "idle"]
      /\ scope = [p \in 0 .. (NProc - 1) |-> "in"]
      /\ arg = [p \in 0 .. (NProc - 1) |-> None]
      /\ prefetch_factor = [p \in 0 .. (NProc - 1) |-> 1]
      /\ prefetch_old = [p \in 0 .. (NProc - 1) |-> Depth]
      /\ iterator = [p \in 0 .. (NProc - 1) |-> "iter1"]
      /\ raised = [p \in 0 .. (NProc - 1) |-> "NoError"]
      /\ out = [p \in 0 .. (NProc - 1) |-> Placeholder]
      /\ produced = 0
      /\ calls = 0
      /\ call = [p \in 0 .. (NProc - 1) |-> NoCall]
      /\ entryDepth = [p \in 0 .. (NProc - 1) |-> Depth]
      /\ current_ctx_worker = [p \in 0 .. (NProc - 1) |-> [w \in {0} |-> NoCtx]]
      /\ sampler_inst = [p \in 0 .. (NProc - 1) |-> [w \in {0} |-> 0]]
      /\ worker_raised = [p \in 0 .. (NProc - 1) |-> [w \in {0} |-> NoError]]

\* The loaders used from inside their warm-up scopes on.
SpecWarm == InitWarm /\ [][Next]_vars

\* The groups of InitWarm in which every loader has a channel to drain and a
\* sampler whose workers write into it.
InitDrain ==
    /\ InitWarm
    /\ \A p \in Procs : ChannelTruthy(channel[p]) /\ dist_sampler[p].present

\* The users calling reset_channel on loaders whose pools are running, and the
\* producers.
NextDrain ==
    \/ \E p \in Procs, kind \in {"none", "reuse", "new"} : reset_channel(p, kind)
    \/ \E p \in Procs : rc_test(p)
    \/ \E p \in Procs : rc_pop(p)
    \/ \E p \in Procs : rc_barrier(p)
    \/ \E p \in Procs : rc_swap(p)
    \/ \E p \in Procs : rc_prop(p)
    \/ \E p \in Procs : Produce(p)

\* The thread of a loader that is in the drain loop (lines 48-49) is runnable
\* and keeps being scheduled; nothing is assumed of the producers.
SpecDrain ==
    /\ InitDrain
    /\ [][NextDrain]_vars
    /\ \A p \in 0 .. (NProc - 1) : WF_vars(rc_test(p)) /\ WF_vars(rc_pop(p))

\* Every operation of the loaders together: the protocol, and the start-up of
\* the worker of each loader (num_workers is 0: a pool of one).
NextRefs ==
    \/ Next
    \/ \E p \in Procs : \E w \in Workers(p) : \E o \in SamplerOutcomes :
          worker_init_fn(p, w, o)

SpecRefs == Init /\ [][NextRefs]_vars

\* Every loader of the group leaves its warm-up scope, with the producers of
\* its pool still running.
NextLeave ==
    \/ \E p \in Procs : exit(p)
    \/ \E p \in Procs : rc_test(p)
    \/ \E p \in Procs : rc_pop(p)
    \/ \E p \in Procs : rc_barrier(p)
    \/ \E p \in Procs : rc_swap(p)
    \/ \E p \in Procs : rc_prop(p)
    \/ \E p \in Procs : ex_iter(p)
    \/ \E p \in Procs : ex_barrier(p)
    \/ \E p \in Procs : Produce(p)

\* Every loader does leave its scope, and a thread that can take its next
\* statement takes it: the barrier returns once it is open.
SpecLeave ==
    /\ InitWarm
    /\ [][NextLeave]_vars
    /\ \A p \in 0 .. (NProc - 1) :
          /\ WF_vars(exit(p))
          /\ WF_vars(rc_test(p)) /\ WF_vars(rc_pop(p)) /\ WF_vars(rc_barrier(p))
          /\ WF_vars(rc_swap(p)) /\ WF_vars(rc_prop(p))
          /\ WF_vars(ex_iter(p)) /\ WF_vars(ex_barrier(p))

\* ================================================================ claims
World == Cardinality(Procs)
PoolSize == IF num_workers >= 1 THEN num_workers ELSE 1
Derived == {pw \in AllWorkers : current_ctx_worker[pw[1]][pw[2]] # NoCtx}
GlobalRank(pw) == current_ctx_worker[pw[1]][pw[2]].global_rank

\* C1: over all parent ranks and worker ids of a job of W ranks with pools of
\* max(P,1) workers, the derived global ranks are pairwise distinct, lie in
\* 0 .. W*max(P,1)-1, and once every worker has derived its context they are
\* exactly that set.
C1_RankUniqueness ==
    /\ \A a \in Derived : \A b \in Derived : a # b => GlobalRank(a) # GlobalRank(b)
    /\ \A a \in Derived : GlobalRank(a) \in 0 .. (World * PoolSize - 1)
    /\ Derived = AllWorkers =>
         {GlobalRank(a) : a \in Derived} = 0 .. (World * PoolSize - 1)

\* C1 witness: every worker of a job of several ranks with pools of several
\* workers has derived its context.
C1_Witness ==
    /\ World >= 2
    /\ num_workers >= 2
    /\ Derived = AllWorkers

\* C2: worker_init_fn(w) on the loader of rank R of W derives global_world_size
\* W*P, global_rank R*P + w and group_name mp_sampling_worker, where P is
\* num_workers, or 1 when num_workers is 0.
C2_DerivedContext ==
    \A pw \in Derived :
        LET ctx == current_ctx_worker[pw[1]][pw[2]]
            R == current_ctx[pw[1]].rank
            W == current_ctx[pw[1]].world_size
        IN  /\ ctx.global_world_size = W * PoolSize
            /\ ctx.global_rank = R * PoolSize + pw[2]
            /\ ctx.group_name = "mp_sampling_worker"

\* C2 witness: a worker of a loader of nonzero rank whose num_workers is 0 has
\* derived its context (the pool of size 1).
C2_Witness ==
    \E pw \in Derived :
        /\ current_ctx[pw[1]].rank >= 1
        /\ num_workers = 0

\* C9 (the claim as stated): the error worker_init_fn(k) raises when the sampler
\* raised a RuntimeError identifies the worker: two workers of one loader that
\* both failed this way carry different messages.
C9_ErrorIdentifiesWorker ==
    \A p \in Procs : \A k \in Workers(p) : \A j \in Workers(p) :
        (/\ k # j
         /\ worker_raised[p][k].type = "RuntimeError"
         /\ worker_raised[p][j].type = "RuntimeError")
        => worker_raised[p][k].text # worker_raised[p][j].text

\* C10: a worker_init_fn(k) that ends with an error changes nothing of any other
\* worker (its recorded context, its sampler instance, its result), nor the
\* context of the loader, its channel, or the channel reference of the sampler.
C10_FailureTouchesNoOtherWorker ==
    [][\A pk \in AllWorkers :
         (/\ worker_raised[pk[1]][pk[2]] = NoError
          /\ worker_raised'[pk[1]][pk[2]] # NoError)
         => /\ \A qj \in AllWorkers \ {pk} :
                 /\ current_ctx_worker'[qj[1]][qj[2]] = current_ctx_worker[qj[1]][qj[2]]
                 /\ sampler_inst'[qj[1]][qj[2]] = sampler_inst[qj[1]][qj[2]]
                 /\ worker_raised'[qj[1]][qj[2]] = worker_raised[qj[1]][qj[2]]
            /\ current_ctx' = current_ctx
            /\ channel' = channel
            /\ dist_sampler' = dist_sampler
            /\ chans' = chans]_vars

\* C10 witness: a worker has failed while another worker of the same loader, and
\* a worker of another loader, hold their own contexts.
C10_Witness ==
    \E pk \in AllWorkers : \E qj \in AllWorkers : \E ri \in AllWorkers :
        /\ worker_raised[pk[1]][pk[2]] # NoError
        /\ qj[1] = pk[1] /\ qj[2] # pk[2]
        /\ ri[1] # pk[1]
        /\ current_ctx_worker[qj[1]][qj[2]] # NoCtx
        /\ current_ctx_worker[ri[1]][ri[2]] # NoCtx
        /\ current_ctx_worker[qj[1]][qj[2]] # current_ctx_worker[pk[1]][pk[2]]

\* ------------------------------------------------------------ reset_channel
PastBarrier(p) == pc[p] \in {"rc_swap", "rc_prop"}

\* The channel the running reset_channel call of p installs.
Installed(p) == IF pc[p] = "rc_swap" THEN SwapTarget(p) ELSE channel[p]

\* C3 (the claim as stated): once the barrier of a reset_channel call has been
\* passed, no message is enqueued into the channel that was active before the
\* call (when the call replaces it by another one).
C3_NoEnqueueInOldChannelAfterBarrier ==
    [][\A p \in Procs :
         (/\ PastBarrier(p)
          /\ ChannelTruthy(call[p].old)
          /\ Installed(p) # call[p].old)
         => Len(chans'[p][call[p].old]) <= Len(chans[p][call[p].old])]_vars

\* The number of barrier calls of p that have returned.
Passed(p) == IF pc[p] \in {"rc_barrier", "ex_barrier"} THEN arrived[p] - 1
             ELSE arrived[p]

\* C4: a reset_channel call is past its barrier (swapping, updating the sampler,
\* or returned) only if every process of the group has arrived at that barrier:
\* no process has passed more barriers than any peer has called, and before the
\* barrier is passed neither the channel nor the sampler reference has changed.
C4_BarrierOrdering ==
    /\ \A p \in Procs : \A q \in Procs : Passed(p) <= arrived[q]
    /\ \A p \in Procs :
         pc[p] \in {"rc_test", "rc_pop", "rc_barrier"} =>
            /\ channel[p] = call[p].old
            /\ dist_sampler[p].present => dist_sampler[p].channel = call[p].sampler

\* C4 witness: in a group of at least two, one process swaps its channel while a
\* peer that arrived at the same barrier is still waiting in it.
C4_Witness ==
    \E p \in Procs : \E q \in Procs \ {p} :
        /\ pc[p] = "rc_swap"
        /\ pc[q] = "rc_barrier"
        /\ arrived[q] = arrived[p]

\* C5 (the claim as stated): every reset_channel call performs drain, barrier,
\* swap and sampler update in this order and skips none: a call ends only by
\* completing the sampler update after the three other steps.
C5_EveryCallPerformsAllSteps ==
    [][\A p \in Procs :
         (InReset(p) /\ ~InReset(p)')
         => /\ pc[p] = "rc_prop"
            /\ call[p].log = <<"drain", "barrier", "swap">>
            /\ dist_sampler'[p].present
            /\ dist_sampler'[p].channel = channel'[p]
            /\ raised'[p] = "NoError"]_vars

\* The steps a call has completed when its thread is at position at.
StepsBefore(at) ==
    CASE at \in {"rc_test", "rc_pop"} -> <<>>
      [] at = "rc_barrier" -> <<"drain">>
      [] at = "rc_swap" -> <<"drain", "barrier">>
      [] at = "rc_prop" -> <<"drain", "barrier", "swap">>

\* C5 (amended): at every point of a reset_channel call the steps completed so
\* far are exactly the earlier ones of drain, barrier, swap, sampler update, in
\* this order (the channel is swapped only once drain and barrier are done, the
\* sampler updated only last), and a call that returns normally has completed
\* all four.
C5_StepsInOrder ==
    /\ [](\A p \in Procs :
            InReset(p) =>
               /\ call[p].log = StepsBefore(pc[p])
               /\ pc[p] # "rc_prop" => channel[p] = call[p].old
               /\ pc[p] = "rc_prop" =>
                     channel[p] = IF ChannelTruthy(arg[p]) THEN arg[p]
                                  ELSE Len(chans[p])
               /\ dist_sampler[p].present =>
                     dist_sampler[p].channel = call[p].sampler)
    /\ [][\A p \in Procs :
            (InReset(p) /\ ~InReset(p)' /\ raised'[p] = "NoError")
            => /\ pc[p] = "rc_prop"
               /\ call[p].log = <<"drain", "barrier", "swap">>
               /\ dist_sampler'[p].channel = channel'[p]]_vars

\* C5 witness: a call that drained a message has passed the barrier and swapped
\* the channel, and is about to update the sampler.
C5_Witness ==
    \E p \in Procs :
        /\ pc[p] = "rc_prop"
        /\ call[p].popped >= 1
        /\ dist_sampler[p].present
        /\ channel[p] # call[p].old

\* C6: once the drain of a reset_channel call is done and no producer has
\* enqueued during the call, the old channel is empty, whatever it held before,
\* up to the end of the call; and with no channel supplied the channel installed
\* is another one than the old.
C6_DrainThenEmpty ==
    \A p \in Procs :
        /\ (pc[p] \in {"rc_barrier", "rc_swap", "rc_prop"} /\ ~call[p].concurrent)
           => Queue(p, call[p].old) = <<>>
        /\ (pc[p] = "rc_prop" /\ ~ChannelTruthy(arg[p]))
           => channel[p] # call[p].old

\* C6 witness: a call with no channel supplied and no concurrent producer has
\* drained two messages and installed its new channel.
C6_Witness ==
    \E p \in Procs :
        /\ pc[p] = "rc_prop"
        /\ ~call[p].concurrent
        /\ ~ChannelTruthy(arg[p])
        /\ call[p].popped >= 2

\* C7: when reset_channel returns, the sampler refers to the active channel of
\* the loader, which is the channel supplied if one was supplied, and otherwise
\* a queue allocated during the call, and empty.
C7_SamplerFollowsChannel ==
    [][\A p \in Procs :
         (pc[p] = "rc_prop" /\ pc'[p] # "rc_prop" /\ raised'[p] = "NoError")
         => /\ dist_sampler'[p].channel = channel'[p]
            /\ ChannelTruthy(arg[p]) => channel'[p] = arg[p]
            /\ ~ChannelTruthy(arg[p]) =>
                  /\ channel'[p] > call[p].a0
                  /\ chans'[p][channel'[p]] = <<>>]_vars

\* C7 witness: a call that was given a new queue of the caller has installed it
\* and is about to update the sampler, which still refers to the old channel.
C7_Witness ==
    \E p \in Procs :
        /\ pc[p] = "rc_prop"
        /\ dist_sampler[p].present
        /\ ChannelTruthy(arg[p])
        /\ arg[p] # call[p].old
        /\ channel[p] = arg[p]
        /\ dist_sampler[p].channel = call[p].old

\* C8 (the claim as stated): when __exit__ returns, the prefetch depth is the
\* depth that was held when the scope was entered.
C8_ExitRestoresDepth ==
    [][\A p \in Procs :
         (scope[p] = "exit" /\ scope'[p] = "out" /\ raised'[p] = "NoError")
         => prefetch_factor'[p] = entryDepth[p]]_vars

\* ------------------------------------------------------------- channel_get
\* C11: channel_get(out) on a loader with no channel returns out unchanged and
\* is never blocked; on a loader with a channel it cannot return while the
\* channel is empty, and when it returns it returns the head of the channel,
\* which it removes, and never the placeholder.
C11_ChannelGet ==
    /\ [](\A p \in Procs : \A o \in Placeholders :
            (pc[p] = "idle" /\ scope[p] \in {"out", "in"}) =>
               /\ ~ChannelTruthy(channel[p]) => ENABLED channel_get(p, o)
               /\ (ChannelTruthy(channel[p]) /\ Queue(p, channel[p]) = <<>>)
                     => ~ENABLED channel_get(p, o))
    /\ [][\A p \in Procs : \A o \in Placeholders :
            channel_get(p, o) =>
               IF channel[p] = None
               THEN out'[p] = o /\ chans' = chans
               ELSE /\ out'[p] = Queue(p, channel[p])[1]
                    /\ out'[p] \notin Placeholders
                    /\ chans'[p][channel[p]] =
                         SubSeq(Queue(p, channel[p]), 2, Len(Queue(p, channel[p])))]_vars

\* C11 witness: a loader with a channel has received the older of two queued
\* messages, the younger being left in the channel, while a peer with no
\* channel holds the placeholder it passed.
C11_Witness ==
    \E p \in Procs : \E q \in Procs :
        /\ ChannelTruthy(channel[p])
        /\ out[p] = 1
        /\ Queue(p, channel[p]) = <<2>>
        /\ ~ChannelTruthy(channel[q])
        /\ out[q] = -1

\* ---------------------------------------------------------- the warm-up scope
Holds(p) == iterator[p] \in {"iter0", "iter1"}

\* C12 (the claim as stated): __exit__ starts a reset_channel call exactly when
\* a channel is configured, and an __exit__ that returns does so from the step
\* after the barrier, with the iterator discarded before the barrier and the
\* saved depth restored after it, and at that moment no peer still holds its
\* iterator.
C12_ExitOrder ==
    [][\A p \in Procs :
         /\ (scope[p] = "in" /\ scope'[p] = "exit")
            => (pc'[p] = "rc_test" <=> ChannelTruthy(channel[p]))
         /\ (scope[p] = "exit" /\ scope'[p] = "out" /\ raised'[p] = "NoError")
            => /\ pc[p] = "ex_barrier"
               /\ iterator[p] = "unset"
               /\ prefetch_factor'[p] = prefetch_old[p]
               /\ \A q \in Procs : ~Holds(q)]_vars

\* C13 (the claim as stated): when an error leaves the warm-up scope, raised by
\* the iterator construction of __enter__, by the reset_channel call of
\* __exit__, or by the body (then __exit__ runs as for a normal end of the body:
\* it ignores its arguments), the prefetch depth is back at the value held at
\* entry and no iterator is held.
C13_ReleaseOnError ==
    [][\A p \in Procs :
         /\ enter(p, "raise")
            => (prefetch_factor'[p] = entryDepth'[p] /\ ~Holds(p)')
         /\ (scope[p] = "exit" /\ scope'[p] = "out")
            => (prefetch_factor'[p] = entryDepth[p] /\ ~Holds(p)')]_vars

\* ------------------------------------------------------- across a reset
\* The messages are numbered in the order they were enqueued.
Ascending(q) == \A i \in 1 .. Len(q) : \A j \in 1 .. Len(q) : i < j => q[i] < q[j]

\* C14 (the claim as stated): no message enqueued before the swap of a
\* reset_channel call is returned by a channel_get after the call: channel_get
\* reads the active channel only, so at the swap the channel installed (a fresh
\* one or the one the caller supplied) holds no message; and the messages of a
\* channel are returned in the order they were enqueued.
C14_NoIntermixing ==
    /\ [](\A p \in Procs : \A c \in DOMAIN chans[p] : Ascending(chans[p][c]))
    /\ [][\A p \in Procs :
            /\ (pc[p] = "rc_swap" /\ pc'[p] # "rc_swap")
               => chans'[p][channel'[p]] = <<>>
            /\ \A o \in Placeholders :
                 (channel_get(p, o) /\ ChannelTruthy(channel[p]))
                 => \A i \in 1 .. Len(chans'[p][channel[p]]) :
                       out'[p] < chans'[p][channel[p]][i]]_vars

\* ------------------------------------------------------------------ drain
Draining(p) == pc[p] \in {"rc_test", "rc_pop"} /\ ChannelTruthy(channel[p])

\* C15: with producers that enqueue finitely many messages (at most MaxMsgs),
\* at any moment of the drain loop, the loop of every reset_channel call on a
\* loader with a channel ends and the call reaches the barrier; and the pop of
\* line 49 always finds a message, whatever the producers did since the empty
\* check, so that it never raises queue.Empty.
C15_DrainTerminates ==
    /\ [](\A p \in Procs :
            /\ raised[p] # "Empty"
            /\ pc[p] = "rc_pop" => Queue(p, channel[p]) # <<>>)
    /\ \A p \in 0 .. (NProc - 1) : Draining(p) ~> pc[p] = "rc_barrier"

\* C15 witness: a call has reached the barrier after a drain during which a
\* producer enqueued, and which popped every message produced.
C15_Witness ==
    \E p \in Procs :
        /\ pc[p] = "rc_barrier"
        /\ call[p].concurrent
        /\ call[p].popped = MaxMsgs

\* ------------------------------------------------------- channel references
RefsUnchanged(p) ==
    /\ channel'[p] = channel[p]
    /\ dist_sampler'[p].channel = dist_sampler[p].channel

\* C16: the active channel of a loader and the channel reference of its sampler
\* change only in a step of a reset_channel call that has passed its barrier
\* (the swap changes the first, the sampler update the second); channel_get,
\* worker_init_fn, __enter__ and the statements of __exit__ itself change
\* neither, nor does anything done by another loader.
C16_RefsChangeOnlyInReset ==
    [][\A p \in Procs :
         /\ ~RefsUnchanged(p) =>
               /\ pc[p] \in {"rc_swap", "rc_prop"}
               /\ call[p].log \in {<<"drain", "barrier">>, <<"drain", "barrier", "swap">>}
               /\ \A q \in Procs : arrived[q] >= arrived[p]
               /\ pc[p] = "rc_swap" => dist_sampler'[p].channel = dist_sampler[p].channel
               /\ pc[p] = "rc_prop" => channel'[p] = channel[p]
         /\ (\E o \in Placeholders : channel_get(p, o)) => RefsUnchanged(p)
         /\ (\E w \in Workers(p) : \E o \in SamplerOutcomes : worker_init_fn(p, w, o))
               => \A q \in Procs : RefsUnchanged(q)
         /\ (\E r \in {"iter1", "iter0", "raise"} : enter(p, r)) => RefsUnchanged(p)
         /\ (exit(p) \/ ex_iter(p) \/ ex_barrier(p)) => RefsUnchanged(p)]_vars

\* C16 witness: inside a warm-up scope whose worker has been started, the
\* reset_channel call of __exit__ has swapped the channel and updated the
\* sampler, and __exit__ goes on to its own statements with a message received
\* before.
C16_Witness ==
    \E p \in Procs :
        /\ pc[p] = "ex_iter"
        /\ channel[p] # 1
        /\ dist_sampler[p].channel = channel[p]
        /\ current_ctx_worker[p][0] # NoCtx
        /\ out[p] # Placeholder

\* ------------------------------------------------------------ warm-up entry
\* C17 (the claim as stated): __enter__ saves the prefetch depth and sets it to
\* 1, also when the construction of the iterator then fails, and otherwise
\* holds the iterator it returns; inside the scope, until __exit__ starts, the
\* depth is 1 and an iterator is held; when __exit__ has returned no iterator is
\* held.
C17_WarmUpScope ==
    /\ [](\A p \in Procs :
            (scope[p] = "in") => (prefetch_factor[p] = 1 /\ Holds(p)))
    /\ [][\A p \in Procs :
            /\ \A r \in {"iter1", "iter0", "raise"} :
                 enter(p, r) =>
                    /\ prefetch_old'[p] = prefetch_factor[p]
                    /\ prefetch_factor'[p] = 1
                    /\ r # "raise" => (iterator'[p] = r /\ scope'[p] = "in")
            /\ (scope[p] = "exit" /\ scope'[p] = "out" /\ raised'[p] = "NoError")
               => ~Holds(p)']_vars

\* ------------------------------------------------------ worker start-up errors
\* C18: a worker_init_fn call invokes init_sampler_instance() at most once (no
\* retry), and when the invocation raises, whatever the error, the call ends by
\* raising an error itself.
C18_NoRetryNoSwallow ==
    /\ [](\A pw \in AllWorkers : sampler_inst[pw[1]][pw[2]] <= 1)
    /\ [][\A pw \in AllWorkers : \A o \in SamplerOutcomes :
            worker_init_fn(pw[1], pw[2], o) =>
               /\ sampler_inst'[pw[1]][pw[2]] <= sampler_inst[pw[1]][pw[2]] + 1
               /\ (dist_sampler[pw[1]].present /\ o # "ok")
                     => /\ sampler_inst'[pw[1]][pw[2]] = sampler_inst[pw[1]][pw[2]] + 1
                        /\ worker_raised'[pw[1]][pw[2]] # NoError
                        /\ worker_raised'[pw[1]][pw[2]].type = o]_vars

\* C18 witness: of two workers of one loader whose sampler was invoked once
\* each, one has ended with the RuntimeError of line 77 and the other with the
\* error of the sampler that line 76 does not catch.
C18_Witness ==
    \E p \in Procs : \E k \in Workers(p) : \E j \in Workers(p) :
        /\ sampler_inst[p][k] = 1
        /\ sampler_inst[p][j] = 1
        /\ worker_raised[p][k] = InitFnError(p, k)
        /\ worker_raised[p][j] = Uncaught("Exception")

\* ------------------------------------------------------- barrier phases
AtBarrier(p) == pc[p] \in {"rc_barrier", "ex_barrier"}

\* C19 (the claim as stated): when all loaders of a group leave their warm-up
\* scopes holding an iterator, whichever of them have a channel, two loaders
\* that wait in their i-th barrier call are in the same phase (both in the
\* barrier of reset_channel or both in the barrier of the teardown), and every
\* __exit__ that has started comes to its end.
C19_BarrierPhasesMatch ==
    /\ [](\A p \in Procs : \A q \in Procs :
            (AtBarrier(p) /\ AtBarrier(q) /\ arrived[p] = arrived[q])
            => pc[p] = pc[q])
    /\ \A p \in 0 .. (NProc - 1) : (scope[p] = "exit") ~> (scope[p] = "out")

\* ------------------------------------------- reset_channel with no channel
\* C20: a reset_channel call on a loader with no channel, whatever argument it
\* is given, ends with an error at its first statement: from its start to its
\* end it is never past the loop test, makes no barrier call and changes
\* neither the channel of the loader nor the channel reference of the sampler.
C20_ResetWithoutChannel ==
    [][\A p \in Procs :
         /\ \A kind \in {"none", "reuse", "new"} :
              (reset_channel(p, kind) /\ ~ChannelTruthy(channel[p]))
              => (arrived'[p] = arrived[p] /\ RefsUnchanged(p))
         /\ (InReset(p) /\ ~ChannelTruthy(channel[p]))
            => /\ pc[p] = "rc_test"
               /\ call[p].log = <<>>
               /\ pc'[p] \in {"rc_test", "idle"}
               /\ pc'[p] = "idle" => raised'[p] = "AttributeError"
               /\ arrived'[p] = arrived[p]
               /\ RefsUnchanged(p)]_vars

\* C20 witness: a reset_channel call on a loader with no channel has ended with
\* the error, having made no barrier call, while a peer with a channel waits in
\* the barrier of its own call.
C20_Witness ==
    \E p \in Procs : \E q \in Procs :
        /\ ~ChannelTruthy(channel[p])
        /\ pc[p] = "idle"
        /\ raised[p] = "AttributeError"
        /\ arrived[p] = 0
        /\ pc[q] = "rc_barrier"
        /\ arrived[q] = 1

====
